---- MODULE Spec2Model ----
(***************************************************************************)
(* A model of the sandboxed arithmetic evaluator, src/imp-met/tool.py.     *)
(*                                                                         *)
(* evaluate(expr) is modelled statement by statement: the numeric          *)
(* short-circuit, strip and the empty check, ast.parse, the _walk of the   *)
(* tree, and the final float().  A source string is a sequence of          *)
(* one-character strings.  ast.parse is modelled by a tokenizer and a      *)
(* recursive-descent parser for the part of Python's expression grammar    *)
(* that can be written with the characters of CharSet.                     *)
(*                                                                         *)
(* Python numbers are records [t, n, d]: an int is n (d = 1), a bool is    *)
(* 0 or 1, a float is the rational n/d in lowest terms.  Rounding of       *)
(* floats and the sign of zero are not modelled.  A value whose numerator  *)
(* or denominator leaves -MaxAbs..MaxAbs, or an irrational power, is the   *)
(* value OutOfRange: the model says nothing about what the program does    *)
(* with it.                                                                *)
(*                                                                         *)
(* Around that call the module has: evaluate on a machine with a finite    *)
(* memory (SpecOnMachine), several calls of evaluate at once               *)
(* (FramesSpec), the token tracker of src/per-unit/token_tracker.py        *)
(* (TrackerSpec), and main with its batches, src/imp-met/main.py           *)
(* (BatchesSpec).  Each specification moves the variables of its own       *)
(* component and leaves the others at rest.                                *)
(***************************************************************************)
EXTENDS Integers, Sequences, FiniteSets, TLC

\* one call of evaluate
VARIABLES expr, pc, expr_str, parsed, result, outcome, parse_calls, walk_calls, applied
\* several calls of evaluate at once, and the tables of the module
VARIABLES frames, history, tables
\* the token tracker
VARIABLES usage, detailed_logs
\* main and its batches
VARIABLES main_pc, batches, tasks, finished, all_results, merged_result

callVars == <<expr, pc, expr_str, parsed, result, outcome, parse_calls, walk_calls, applied>>
frameVars == <<frames, history, tables>>
trackerVars == <<usage, detailed_logs>>
batchVars == <<main_pc, batches, tasks, finished, all_results, merged_result>>

vars == <<callVars, frameVars, trackerVars, batchVars>>

(***************************************************************************)
(* Bounds of the model.                                                    *)
(***************************************************************************)
MaxAbs == 20000
MaxLen == 3

(***************************************************************************)
(* Characters.                                                             *)
(***************************************************************************)
WhitespaceChars == {" ", "\t", "\n"}
Digits == {"0", "1", "2", "3", "4", "5", "6", "7", "8", "9"}
Letters == {"a", "d", "e", "f", "i", "l", "n", "r", "s", "t", "u", "x", "T"}
HexDigits == Digits \cup {"a", "d", "e", "f"}
Punct == {"+", "-", "*", "/", "%", "<", ">", "&", "|", "~", "(", ")", ".", "'"}
CharSet == WhitespaceChars \cup Digits \cup Letters \cup Punct

Min(S) == CHOOSE x \in S : \A y \in S : x <= y

(***************************************************************************)
(* Where the result r of a recursive computation is used more than once    *)
(* it is bound by                                                          *)
(*     CHOOSE v \in {(... r ...) : r \in {computation}} : TRUE             *)
(* which is (... computation ...) with the computation evaluated once.     *)
(***************************************************************************)

Abs(n) == IF n < 0 THEN -n ELSE n

\* s[i], or "" past the end of s
At(s, i) == IF i >= 1 /\ i <= Len(s) THEN s[i] ELSE ""

\* the first position >= i of s whose character is not in S
RunEnd(s, i, S) ==
    LET js == {j \in i..Len(s) : s[j] \notin S}
    IN  IF js = {} THEN Len(s) + 1 ELSE Min(js)

(***************************************************************************)
(* str.strip(): drop leading and trailing whitespace.                      *)
(***************************************************************************)
\* a strip() that knows the space only
Strip_spaces_only(s) ==
    LET keep == {j \in 1..Len(s) : s[j] # " "}
    IN  IF keep = {} THEN <<>>
        ELSE SubSeq(s, Min(keep), CHOOSE j \in keep : \A k \in keep : k <= j)

Strip(s) ==
    LET keep == {j \in 1..Len(s) : s[j] \notin WhitespaceChars}
    IN  IF keep = {} THEN <<>>
        ELSE LET lo == Min(keep)
                 hi == CHOOSE j \in keep : \A k \in keep : k <= j
             IN  SubSeq(s, lo, hi)

(***************************************************************************)
(* Python values.                                                          *)
(***************************************************************************)
IntV(n) == [t |-> "int", n |-> n, d |-> 1]
BoolV(b) == [t |-> "bool", n |-> IF b THEN 1 ELSE 0, d |-> 1]
StrV == [t |-> "str", n |-> 0, d |-> 0]
NoneV == [t |-> "NoneType", n |-> 0, d |-> 0]
EllipsisV == [t |-> "ellipsis", n |-> 0, d |-> 0]
ComplexV == [t |-> "complex", n |-> 0, d |-> 0]
OutOfRange == [t |-> "out_of_range", n |-> 0, d |-> 0]
NoValue == [t |-> "none", n |-> 0, d |-> 0]

RECURSIVE Gcd(_, _)
Gcd(a, b) == IF b = 0 THEN a ELSE Gcd(b, a % b)

\* the float n/d, d > 0, in lowest terms
FloatV(n, d) ==
    LET g == Gcd(Abs(n), d)
        rn == n \div g
        rd == d \div g
    IN  IF Abs(rn) > MaxAbs \/ rd > MaxAbs THEN OutOfRange
        ELSE [t |-> "float", n |-> rn, d |-> rd]

IntOrBig(n) == IF Abs(n) > MaxAbs THEN OutOfRange ELSE IntV(n)

(***************************************************************************)
(* The tokenizer of ast.parse.  A token is [k, s, v]: k is the kind        *)
(* ("num", "str", "name", "kw", "op", "nl"), s the text of an operator or  *)
(* keyword (the prefix kind of a string), v the value of a number.         *)
(***************************************************************************)
Tok(k, s, v) == [k |-> k, s |-> s, v |-> v]

DigitVal(c) ==
    CASE c = "0" -> 0 [] c = "1" -> 1 [] c = "2" -> 2 [] c = "3" -> 3
      [] c = "4" -> 4 [] c = "5" -> 5 [] c = "6" -> 6 [] c = "7" -> 7
      [] c = "8" -> 8 [] c = "9" -> 9 [] c = "a" -> 10 [] c = "d" -> 13
      [] c = "e" -> 14 [] c = "f" -> 15

\* the value of the digits s[i..j-1] in the given base, -1 beyond MaxAbs
RECURSIVE DigitsVal(_, _, _, _)
DigitsVal(s, i, j, base) ==
    IF j <= i THEN 0
    ELSE CHOOSE val \in
             {(IF hi < 0 \/ hi * base + DigitVal(s[j - 1]) > MaxAbs THEN -1
               ELSE hi * base + DigitVal(s[j - 1]))
                : hi \in {DigitsVal(s, i, j - 1, base)}} : TRUE

\* m * 10^k as a float, k any integer
RECURSIVE Scale10(_, _, _)
Scale10(n, d, k) ==
    IF k = 0 THEN FloatV(n, d)
    ELSE IF n = 0 THEN FloatV(0, 1)
    ELSE IF k > 0 THEN (IF n * 10 > MaxAbs * 10 THEN OutOfRange
                        ELSE LET g == Gcd(10, d)
                             IN  IF (n * 10) \div g > MaxAbs THEN OutOfRange
                                 ELSE Scale10((n * 10) \div g, d \div g, k - 1))
    ELSE LET g == Gcd(n, 10)
         IN  IF d * (10 \div g) > MaxAbs THEN OutOfRange
             ELSE Scale10(n \div g, d * (10 \div g), k + 1)

Lookahead(s, p, w) ==
    /\ p + Len(w) - 1 <= Len(s)
    /\ SubSeq(s, p, p + Len(w) - 1) = w

\* verify_end_of_number: may the number end in front of s[p]
VerifyEnd(s, p) ==
    LET c == At(s, p)
    IN  \/ c = "a" /\ Lookahead(s, p + 1, <<"n", "d">>)
        \/ c = "e" /\ Lookahead(s, p + 1, <<"l", "s", "e">>)
        \/ c = "i" /\ At(s, p + 1) \in {"f", "n", "s"}
        \/ c \notin Letters \cup Digits

LexErr == [ok |-> FALSE, tok |-> Tok("op", "", NoValue), next |-> 0]
LexOk(tok, next) == [ok |-> TRUE, tok |-> tok, next |-> next]

\* the exponent part: s[p] = "e" follows the mantissa digits s[i..p-1],
\* of which the last fd are fraction digits; isfloat: a "." was seen
LexExponent(s, i, p, m, fd, isfloat) ==
    LET c1 == At(s, p + 1)
        signed == c1 \in {"+", "-"}
        q == IF signed THEN p + 2 ELSE p + 1
        e == RunEnd(s, q, Digits)
        ev == DigitsVal(s, q, e, 10)
        mant == IF m < 0 THEN OutOfRange
                ELSE IF isfloat THEN Scale10(m, 1, 0 - fd) ELSE IntV(m)
    IN  IF At(s, q) \in Digits
        THEN IF ~VerifyEnd(s, e) THEN LexErr
             ELSE LexOk(Tok("num", "",
                     IF m < 0 \/ ev < 0 THEN OutOfRange
                     ELSE Scale10(m, 1, (IF c1 = "-" THEN 0 - ev ELSE ev) - fd)), e)
        ELSE IF signed THEN LexErr
        ELSE IF VerifyEnd(s, p) THEN LexOk(Tok("num", "", mant), p)
        ELSE LexErr

\* the fraction part: s[dot] = "." follows the integer digits s[i..dot-1]
LexFraction(s, i, dot) ==
    LET k == RunEnd(s, dot + 1, Digits)
        digs == SubSeq(s, i, dot - 1) \o SubSeq(s, dot + 1, k - 1)
        m == DigitsVal(digs, 1, Len(digs) + 1, 10)
        fd == k - dot - 1
    IN  IF At(s, k) = "e" THEN LexExponent(s, i, k, m, fd, TRUE)
        ELSE IF ~VerifyEnd(s, k) THEN LexErr
        ELSE LexOk(Tok("num", "", IF m < 0 THEN OutOfRange ELSE Scale10(m, 1, 0 - fd)), k)

\* a number that starts at s[i]: s[i] is a digit, or "." before a digit
LexNumber(s, i) ==
    IF s[i] = "." THEN LexFraction(s, i, i)
    ELSE IF s[i] = "0" /\ At(s, i + 1) = "x"
    THEN LET j == RunEnd(s, i + 2, HexDigits)
             v == DigitsVal(s, i + 2, j, 16)
         IN  IF j = i + 2 \/ ~VerifyEnd(s, j) THEN LexErr
             ELSE LexOk(Tok("num", "", IF v < 0 THEN OutOfRange ELSE IntV(v)), j)
    ELSE LET j == RunEnd(s, i, Digits)
             m == DigitsVal(s, i, j, 10)
             leadingzero == s[i] = "0" /\ \E k \in i..(j - 1) : s[k] # "0"
         IN  IF At(s, j) = "." THEN LexFraction(s, i, j)
             ELSE IF At(s, j) = "e" THEN LexExponent(s, i, j, m, 0, FALSE)
             ELSE IF leadingzero \/ ~VerifyEnd(s, j) THEN LexErr
             ELSE LexOk(Tok("num", "", IF m < 0 THEN OutOfRange ELSE IntV(m)), j)


\* the keywords that can be spelled with Letters
KeywordText(w) ==
    CASE w = <<"a", "n", "d">> -> "and"
      [] w = <<"e", "l", "s", "e">> -> "else"
      [] w = <<"i", "f">> -> "if"
      [] w = <<"i", "n">> -> "in"
      [] w = <<"i", "s">> -> "is"
      [] w = <<"T", "r", "u", "e">> -> "True"
      [] w \in {<<"a", "s">>, <<"a", "s", "s", "e", "r", "t">>, <<"d", "e", "f">>,
                <<"d", "e", "l">>, <<"e", "l", "i", "f">>,
                <<"r", "e", "t", "u", "r", "n">>, <<"r", "a", "i", "s", "e">>} -> "stmt"
      [] OTHER -> ""

StringPrefixes == {<<"r">>, <<"u">>, <<"f">>, <<"r", "f">>, <<"f", "r">>}

\* a string literal whose opening quote is s[q]
LexString(s, q, prefix) ==
    LET triple == At(s, q + 1) = "'" /\ At(s, q + 2) = "'"
        closes == IF triple
                  THEN {p \in (q + 3)..Len(s) : Lookahead(s, p, <<"'", "'", "'">>)}
                  ELSE {p \in (q + 1)..Len(s) : s[p] = "'"}
        close == Min(closes)
        tok == Tok("str", IF \E k \in 1..Len(prefix) : prefix[k] = "f" THEN "f" ELSE "", NoValue)
    IN  IF closes = {} THEN LexErr
        ELSE IF ~triple /\ \E k \in q..close : s[k] = "\n" THEN LexErr
        ELSE LexOk(tok, IF triple THEN close + 3 ELSE close + 1)

\* a name, a keyword, or a string with a prefix, starting at the letter s[i]
LexWord(s, i) ==
    LET j == RunEnd(s, i, Letters \cup Digits)
        w == SubSeq(s, i, j - 1)
    IN  IF At(s, j) = "'" /\ w \in StringPrefixes THEN LexString(s, j, w)
        ELSE IF KeywordText(w) # "" THEN LexOk(Tok("kw", KeywordText(w), NoValue), j)
        ELSE LexOk(Tok("name", "", NoValue), j)

\* an operator or delimiter starting at s[i], the longest match first
LexOp(s, i) ==
    LET c == s[i]
        c2 == At(s, i + 1)
    IN  IF c = "." /\ c2 = "." /\ At(s, i + 2) = "." THEN LexOk(Tok("op", "...", NoValue), i + 3)
        ELSE IF c = "*" /\ c2 = "*" THEN LexOk(Tok("op", "**", NoValue), i + 2)
        ELSE IF c = "/" /\ c2 = "/" THEN LexOk(Tok("op", "//", NoValue), i + 2)
        ELSE IF c = "<" /\ c2 = "<" THEN LexOk(Tok("op", "<<", NoValue), i + 2)
        ELSE IF c = ">" /\ c2 = ">" THEN LexOk(Tok("op", ">>", NoValue), i + 2)
        ELSE IF c = "<" /\ c2 = ">" THEN LexOk(Tok("op", "<>", NoValue), i + 2)
        ELSE IF c = "-" /\ c2 = ">" THEN LexOk(Tok("op", "->", NoValue), i + 2)
        ELSE LexOk(Tok("op", c, NoValue), i + 1)

\* the token that starts at s[i]
LexOne(s, i) ==
    IF s[i] \in Digits \/ (s[i] = "." /\ At(s, i + 1) \in Digits) THEN LexNumber(s, i)
    ELSE IF s[i] \in Letters THEN LexWord(s, i)
    ELSE IF s[i] = "'" THEN LexString(s, i, <<>>)
    ELSE LexOp(s, i)

\* the count of open parentheses after the token tok
NewDepth(tok, depth) ==
    IF tok.k = "op" /\ tok.s = "(" THEN depth + 1
    ELSE IF tok.k = "op" /\ tok.s = ")" /\ depth > 0 THEN depth - 1
    ELSE depth

\* the tokens of s from position i on, after the tokens acc; depth counts the
\* open parentheses, inside which a newline is whitespace
RECURSIVE Lex(_, _, _, _)
Lex(s, i, depth, acc) ==
    CASE i > Len(s) -> [ok |-> TRUE, toks |-> acc]
      [] i <= Len(s) /\ s[i] \in {" ", "\t"} ->
            Lex(s, RunEnd(s, i, {" ", "\t"}), depth, acc)
      [] i <= Len(s) /\ s[i] = "\n" ->
            Lex(s, i + 1, depth,
                IF depth > 0 THEN acc ELSE Append(acc, Tok("nl", "", NoValue)))
      [] OTHER ->
            CHOOSE lexed \in
                {(IF one.ok
                  THEN Lex(s, one.next, NewDepth(one.tok, depth), Append(acc, one.tok))
                  ELSE [ok |-> FALSE, toks |-> <<>>])
                   : one \in {LexOne(s, i)}} : TRUE

Tokenize(s) == Lex(s, 1, 0, <<>>)


(***************************************************************************)
(* The syntax tree of ast.parse.  A node is [type, op, kids, value].  The  *)
(* kids of BinOp are <<left, right>>, of UnaryOp <<operand>>, of           *)
(* Expression <<body>>.  _walk never looks inside a node of another type,  *)
(* so such a node keeps only its type.                                     *)
(***************************************************************************)
Node(type, op, kids, value) == [type |-> type, op |-> op, kids |-> kids, value |-> value]
BinOp(op, left, right) == Node("BinOp", op, <<left, right>>, NoValue)
UnaryOp(op, operand) == Node("UnaryOp", op, <<operand>>, NoValue)
Constant(v) == Node("Constant", "", <<>>, v)
Other(type) == Node(type, "", <<>>, NoValue)
NoNode == Other("")

PFail == [ok |-> FALSE, node |-> NoNode, next |-> 0]
POk(node, next) == [ok |-> TRUE, node |-> node, next |-> next]

IsOp(ts, i, ops) == i <= Len(ts) /\ ts[i].k = "op" /\ ts[i].s \in ops
IsKw(ts, i, kws) == i <= Len(ts) /\ ts[i].k = "kw" /\ ts[i].s \in kws
IsKind(ts, i, k) == i <= Len(ts) /\ ts[i].k = k

\* the first position > i of ts whose token is not of kind k
RunEndKind(ts, i, k) ==
    LET js == {j \in (i + 1)..Len(ts) : ts[j].k # k}
    IN  IF js = {} THEN Len(ts) + 1 ELSE Min(js)

\* the binary operators of Python's grammar from the loosest level to the
\* tightest: bitwise_or, bitwise_and, shift_expr, sum, term
\* the levels of sum and term exchanged
LevelOps_swapped(lvl) ==
    CASE lvl = 1 -> {"|"}
      [] lvl = 2 -> {"&"}
      [] lvl = 3 -> {"<<", ">>"}
      [] lvl = 4 -> {"*", "/", "//", "%"}
      [] lvl = 5 -> {"+", "-"}

LevelOps(lvl) ==
    CASE lvl = 1 -> {"|"}
      [] lvl = 2 -> {"&"}
      [] lvl = 3 -> {"<<", ">>"}
      [] lvl = 4 -> {"+", "-"}
      [] lvl = 5 -> {"*", "/", "//", "%"}
TopLevel == 1
FactorLevel == 6
\* below them in the grammar: conjunction with comparison, and expression
ConjunctionLevel == 0
ExpressionLevel == -1

BinOpName(sym) ==
    CASE sym = "|" -> "BitOr" [] sym = "&" -> "BitAnd"
      [] sym = "<<" -> "LShift" [] sym = ">>" -> "RShift"
      [] sym = "+" -> "Add" [] sym = "-" -> "Sub"
      [] sym = "*" -> "Mult" [] sym = "/" -> "Div"
      [] sym = "//" -> "FloorDiv" [] sym = "%" -> "Mod"

UnaryOpName(sym) ==
    CASE sym = "+" -> "UAdd" [] sym = "-" -> "USub" [] sym = "~" -> "Invert"

\* the level of a binary operator, and the operators of level lvl and tighter
LevelOf(sym) == CHOOSE lvl \in TopLevel..(FactorLevel - 1) : sym \in LevelOps(lvl)
OpsFrom(lvl) == UNION {LevelOps(l) : l \in {k \in TopLevel..(FactorLevel - 1) : k >= lvl}}

RECURSIVE ParseBin(_, _, _), BinLoop(_, _, _, _), LooseLoop(_, _, _, _, _)
RECURSIVE ParseFactor(_, _), ParsePower(_, _), ParsePrimary(_, _), Suffixes(_, _, _)
RECURSIVE PowLoop_left(_, _, _)

\* expression: conjunction ['if' conjunction 'else' expression]
ParseExpression(ts, i) == ParseBin(ts, i, ExpressionLevel)

\* conjunction: comparison ('and' comparison)*
ParseConjunction(ts, i) == ParseBin(ts, i, ConjunctionLevel)

\* the attribute references and calls that follow an atom
Suffixes(ts, node, i) ==
    IF IsOp(ts, i, {"("}) /\ ~IsOp(ts, i + 1, {")"})
    THEN CHOOSE p \in
             {(IF a.ok /\ IsOp(ts, a.next, {")"})
               THEN Suffixes(ts, Other("Call"), a.next + 1)
               ELSE PFail)
                : a \in {ParseExpression(ts, IF IsOp(ts, i + 1, {"*", "**"})
                                             THEN i + 2 ELSE i + 1)}} : TRUE
    ELSE IF IsOp(ts, i, {"("}) THEN Suffixes(ts, Other("Call"), i + 2)
    ELSE IF IsOp(ts, i, {"."})
    THEN IF IsKind(ts, i + 1, "name") THEN Suffixes(ts, Other("Attribute"), i + 2)
         ELSE PFail
    ELSE POk(node, i)

\* primary: atom ('.' NAME | '(' arguments ')')*, with
\* atom: '(' expression ')' | '(' ')' | NAME | 'True' | NUMBER | '...' | strings
ParsePrimary(ts, i) ==
    IF IsOp(ts, i, {"("}) /\ ~IsOp(ts, i + 1, {")"})
    THEN CHOOSE p \in
             {(IF e.ok /\ IsOp(ts, e.next, {")"})
               THEN Suffixes(ts, e.node, e.next + 1)
               ELSE PFail)
                : e \in {ParseExpression(ts, i + 1)}} : TRUE
    ELSE IF IsOp(ts, i, {"("}) THEN Suffixes(ts, Other("Tuple"), i + 2)
    ELSE IF IsKind(ts, i, "name") THEN Suffixes(ts, Other("Name"), i + 1)
    ELSE IF IsKw(ts, i, {"True"}) THEN Suffixes(ts, Constant(BoolV(TRUE)), i + 1)
    ELSE IF IsKind(ts, i, "num") THEN Suffixes(ts, Constant(ts[i].v), i + 1)
    ELSE IF IsOp(ts, i, {"..."}) THEN Suffixes(ts, Constant(EllipsisV), i + 1)
    ELSE IF IsKind(ts, i, "str")
    THEN LET j == RunEndKind(ts, i, "str")
         IN  IF \E k \in i..(j - 1) : ts[k].s = "f" THEN Suffixes(ts, Other("JoinedStr"), j)
             ELSE Suffixes(ts, Constant(StrV), j)
    ELSE PFail

\* a power that groups to the left: primary ('**' primary)*
PowLoop_left(ts, left, i) ==
    IF IsOp(ts, i, {"**"})
    THEN CHOOSE p \in
             {(IF e.ok THEN PowLoop_left(ts, BinOp("Pow", left, e.node), e.next) ELSE PFail)
                : e \in {ParsePrimary(ts, i + 1)}} : TRUE
    ELSE POk(left, i)

ParsePower_left(ts, i) ==
    CHOOSE p \in
        {(IF b.ok THEN PowLoop_left(ts, b.node, b.next) ELSE PFail)
           : b \in {ParsePrimary(ts, i)}} : TRUE

\* power: primary ['**' factor], so ** groups to the right
ParsePower(ts, i) ==
    CHOOSE p \in
        {(IF b.ok /\ IsOp(ts, b.next, {"**"})
          THEN CHOOSE q \in
                   {(IF e.ok THEN POk(BinOp("Pow", b.node, e.node), e.next) ELSE PFail)
                      : e \in {ParseFactor(ts, b.next + 1)}} : TRUE
          ELSE b)
           : b \in {ParsePrimary(ts, i)}} : TRUE

\* a unary sign that binds tighter than **: sign primary ['**' factor]
ParseFactor_tight(ts, i) ==
    IF IsOp(ts, i, {"+", "-", "~"})
    THEN CHOOSE p \in
             {(IF f.ok /\ IsOp(ts, f.next, {"**"})
               THEN CHOOSE q \in
                        {(IF e.ok
                          THEN POk(BinOp("Pow", UnaryOp(UnaryOpName(ts[i].s), f.node), e.node),
                                   e.next)
                          ELSE PFail)
                           : e \in {ParseFactor(ts, f.next + 1)}} : TRUE
               ELSE IF f.ok THEN POk(UnaryOp(UnaryOpName(ts[i].s), f.node), f.next)
               ELSE PFail)
                : f \in {ParsePrimary(ts, i + 1)}} : TRUE
    ELSE ParsePower(ts, i)

\* factor: ('+' | '-' | '~') factor | power
ParseFactor(ts, i) ==
    IF IsOp(ts, i, {"+", "-", "~"})
    THEN CHOOSE p \in
             {(IF f.ok THEN POk(UnaryOp(UnaryOpName(ts[i].s), f.node), f.next) ELSE PFail)
                : f \in {ParseFactor(ts, i + 1)}} : TRUE
    ELSE ParsePower(ts, i)

\* what follows the first bitwise_or of a conjunction or an expression:
\* comparison: bitwise_or (('<' | '>' | 'in' | 'is') bitwise_or)*
\* conjunction: comparison ('and' comparison)*, conj once an 'and' was read
\* expression: conjunction ['if' conjunction 'else' expression], when ternary
LooseLoop(ts, node, i, ternary, conj) ==
    IF IsOp(ts, i, {"<", ">"}) \/ IsKw(ts, i, {"in", "is", "and"})
    THEN CHOOSE p \in
             {(IF ~r.ok THEN PFail
               ELSE IF conj \/ IsKw(ts, i, {"and"})
               THEN LooseLoop(ts, Other("BoolOp"), r.next, ternary, TRUE)
               ELSE LooseLoop(ts, Other("Compare"), r.next, ternary, FALSE))
                : r \in {ParseBin(ts, i + 1, TopLevel)}} : TRUE
    ELSE IF ternary /\ IsKw(ts, i, {"if"})
    THEN CHOOSE p \in
             {(IF t.ok /\ IsKw(ts, t.next, {"else"})
               THEN CHOOSE q \in
                        {(IF e.ok THEN POk(Other("IfExp"), e.next) ELSE PFail)
                           : e \in {ParseExpression(ts, t.next + 1)}} : TRUE
               ELSE PFail)
                : t \in {ParseConjunction(ts, i + 1)}} : TRUE
    ELSE POk(node, i)

\* the operators that follow the operand left of an expression of level lvl:
\* an operator of level lvl or tighter takes as its right operand an
\* expression of the next tighter level, and groups to the left
BinLoop(ts, left, i, lvl) ==
    IF IsOp(ts, i, OpsFrom(lvl))
    THEN CHOOSE p \in
             {(IF r.ok
               THEN BinLoop(ts, BinOp(BinOpName(ts[i].s), left, r.node), r.next, lvl)
               ELSE PFail)
                : r \in {ParseBin(ts, i + 1, LevelOf(ts[i].s) + 1)}} : TRUE
    ELSE IF lvl < TopLevel THEN LooseLoop(ts, left, i, lvl = ExpressionLevel, FALSE)
    ELSE POk(left, i)

\* an expression of level lvl, from expression and conjunction through
\* bitwise_or (TopLevel) down to term: factor (operator operand)*
ParseBin(ts, i, lvl) ==
    CHOOSE p \in
        {(IF l.ok THEN BinLoop(ts, l.node, l.next, lvl) ELSE PFail)
           : l \in {ParseFactor(ts, i)}} : TRUE

\* ast.parse(s, mode="eval"): the Expression node, or a SyntaxError
AstParse(s) ==
    CHOOSE p \in
        {(IF ~lx.ok THEN [ok |-> FALSE, tree |-> NoNode]
          ELSE CHOOSE q \in
                   {(IF e.ok /\ e.next = Len(lx.toks) + 1
                     THEN [ok |-> TRUE, tree |-> Node("Expression", "", <<e.node>>, NoValue)]
                     ELSE [ok |-> FALSE, tree |-> NoNode])
                      : e \in {ParseExpression(lx.toks, 1)}} : TRUE)
           : lx \in {Tokenize(s)}} : TRUE

(***************************************************************************)
(* Python arithmetic on the values.  The result of an operator is          *)
(* [kind, val, exc, msg]: kind "value" with val, kind "raise" with the     *)
(* exception type exc and its message msg, or kind "unknown" when an       *)
(* operand or the result is OutOfRange.                                    *)
(***************************************************************************)
Value(v) == IF v.t = "out_of_range" THEN [kind |-> "unknown", val |-> OutOfRange, exc |-> "", msg |-> <<>>]
            ELSE [kind |-> "value", val |-> v, exc |-> "", msg |-> <<>>]
Raise(exc, msg) == [kind |-> "raise", val |-> NoValue, exc |-> exc, msg |-> msg]
Unknown == Value(OutOfRange)

IsIntLike(v) == v.t \in {"int", "bool"}
IsReal(v) == v.t \in {"int", "bool", "float"}

\* the largest |exponent| for which base ** exponent cannot overflow a double
\* when |base| <= MaxAbs
SafeExponent == 64

\* a * a * ... * a (b times) times acc for naturals, -1 beyond MaxAbs
RECURSIVE PowAcc(_, _, _)
PowAcc(a, b, acc) ==
    IF b > 0 /\ a > 1 /\ acc * a <= MaxAbs THEN PowAcc(a, b - 1, acc * a)
    ELSE IF b = 0 \/ a = 1 THEN acc
    ELSE IF a = 0 THEN 0
    ELSE -1

PowSign(a, b) == IF a < 0 /\ b % 2 = 1 THEN -1 ELSE 1

py_add(x, y) ==
    IF x.t = "complex" \/ y.t = "complex" THEN Value(ComplexV)
    ELSE IF IsIntLike(x) /\ IsIntLike(y) THEN Value(IntOrBig(x.n + y.n))
    ELSE Value(FloatV(x.n * y.d + y.n * x.d, x.d * y.d))

py_sub(x, y) ==
    IF x.t = "complex" \/ y.t = "complex" THEN Value(ComplexV)
    ELSE IF IsIntLike(x) /\ IsIntLike(y) THEN Value(IntOrBig(x.n - y.n))
    ELSE Value(FloatV(x.n * y.d - y.n * x.d, x.d * y.d))

py_mul(x, y) ==
    IF x.t = "complex" \/ y.t = "complex" THEN Value(ComplexV)
    ELSE IF IsIntLike(x) /\ IsIntLike(y) THEN Value(IntOrBig(x.n * y.n))
    ELSE Value(FloatV(x.n * y.n, x.d * y.d))

\* operator.truediv: int / int is a float; a zero divisor raises
py_truediv(x, y) ==
    IF y.t = "complex" THEN Unknown
    ELSE IF y.n = 0
    THEN Raise("ZeroDivisionError",
               IF x.t = "complex" THEN <<"complex division by zero">>
               ELSE IF x.t = "float" \/ y.t = "float" THEN <<"float division by zero">>
               ELSE <<"division by zero">>)
    ELSE IF x.t = "complex" THEN Value(ComplexV)
    ELSE Value(FloatV((IF y.n < 0 THEN -1 ELSE 1) * x.n * y.d, x.d * Abs(y.n)))

\* (n/d) ** e for an integer e, as a float
RationalPow(n, d, e) ==
    LET pn == PowAcc(Abs(n), Abs(e), 1)
        pd == PowAcc(d, Abs(e), 1)
        sg == PowSign(n, Abs(e))
    IN  IF pn < 0 \/ pd < 0 THEN Unknown
        ELSE IF e >= 0 THEN Value(FloatV(sg * pn, pd))
        ELSE Value(FloatV(sg * pd, pn))

\* operator.pow
py_pow(x, y) ==
    IF x.t = "complex" \/ y.t = "complex"
    THEN IF x.t = "complex" /\ IsIntLike(y) /\ y.n \in {0, 1} THEN Value(ComplexV)
         ELSE Unknown
    ELSE IF IsIntLike(x) /\ IsIntLike(y) /\ y.n >= 0
    THEN LET m == PowAcc(Abs(x.n), y.n, 1)
         IN  IF m < 0 THEN Unknown ELSE Value(IntV(PowSign(x.n, y.n) * m))
    ELSE IF x.n = 0
    THEN IF y.n < 0 THEN Raise("ZeroDivisionError", <<"0.0 cannot be raised to a negative power">>)
         ELSE IF y.n = 0 THEN Value(FloatV(1, 1))
         ELSE Value(FloatV(0, 1))
    ELSE IF y.d = 1 THEN RationalPow(x.n, x.d, y.n)
    ELSE IF x.n < 0
    THEN IF Abs(y.n) <= SafeExponent * y.d THEN Value(ComplexV) ELSE Unknown
    ELSE IF x.n = x.d THEN Value(FloatV(1, 1))
    ELSE Unknown

py_neg(x) ==
    IF x.t = "complex" THEN Value(ComplexV)
    ELSE IF IsIntLike(x) THEN Value(IntV(0 - x.n))
    ELSE Value(FloatV(0 - x.n, x.d))

\* float(x): a complex number is not accepted
py_float(x) ==
    IF x.t = "complex"
    THEN Raise("TypeError", <<"float() argument must be a string or a real number, not 'complex'">>)
    ELSE Value(FloatV(x.n, x.d))

(***************************************************************************)
(* OPERATORS and UNARY_OPERATORS: the operator tables of tool.py.          *)
(***************************************************************************)
OPERATORS == {"Add", "Sub", "Mult", "Div", "Pow"}
UNARY_OPERATORS == {"UAdd", "USub"}

ApplyBinary(op, left, right) ==
    CASE op = "Add" -> py_add(left, right)
      [] op = "Sub" -> py_sub(left, right)
      [] op = "Mult" -> py_mul(left, right)
      [] op = "Div" -> py_truediv(left, right)
      [] op = "Pow" -> py_pow(left, right)

\* the unary minus losing the sign
ApplyUnary_unsigned(op, operand) ==
    CASE op = "UAdd" -> Value(operand)
      [] op = "USub" -> Value(operand)

ApplyUnary(op, operand) ==
    CASE op = "UAdd" -> Value(operand)
      [] op = "USub" -> py_neg(operand)


(***************************************************************************)
(* _walk: the recursive evaluation of the tree.  The result is             *)
(* [res, applied]: res is the value returned or the exception raised, and  *)
(* applied counts the operator functions called on the way.                *)
(***************************************************************************)
Walked(res, n) == [res |-> res, applied |-> n]

\* the name Python gives the type of a constant in the error message
TypeName(v) == v.t

RECURSIVE _walk(_)
_walk(node) ==
    CASE node.type = "Expression" -> _walk(node.kids[1])
      [] node.type = "BinOp" ->
            CHOOSE w \in
                {(IF left.res.kind # "value" THEN left
                  ELSE CHOOSE v \in
                      {(IF right.res.kind # "value"
                        THEN Walked(right.res, left.applied + right.applied)
                        ELSE IF node.op \notin OPERATORS
                        THEN Walked(Raise("ValueError",
                                          <<"Unsupported binary operator: ", node.op>>),
                                    left.applied + right.applied)
                        ELSE Walked(ApplyBinary(node.op, left.res.val, right.res.val),
                                    left.applied + right.applied + 1))
                         : right \in {_walk(node.kids[2])}} : TRUE)
                   : left \in {_walk(node.kids[1])}} : TRUE
      [] node.type = "UnaryOp" ->
            CHOOSE w \in
                {(IF operand.res.kind # "value" THEN operand
                  ELSE IF node.op \notin UNARY_OPERATORS
                  THEN Walked(Raise("ValueError", <<"Unsupported unary operator: ", node.op>>),
                              operand.applied)
                  ELSE Walked(ApplyUnary(node.op, operand.res.val), operand.applied + 1))
                   : operand \in {_walk(node.kids[1])}} : TRUE
      [] node.type = "Constant" ->
            IF node.value.t \in {"int", "bool", "float", "out_of_range"}
            THEN Walked(Value(node.value), 0)
            ELSE Walked(Raise("ValueError",
                              <<"Unsupported constant type: ", TypeName(node.value)>>), 0)
      [] OTHER -> Walked(Raise("ValueError", <<"Unsupported AST node: ", node.type>>), 0)

(***************************************************************************)
(* The inputs of evaluate: a number, or a string.                          *)
(***************************************************************************)
NumInput(v) == [isnum |-> TRUE, val |-> v, s |-> <<>>]
StrInput(s) == [isnum |-> FALSE, val |-> NoValue, s |-> s]

\* the characters of the exhaustively enumerated strings
Alphabet == {" ", "0", "2", "3", "+", "-", "*", "/", "(", ")", "%", "x"}

\* all strings of at most n characters of the set chars
RECURSIVE StringsUpTo(_, _)
StringsUpTo(n, chars) ==
    IF n = 0 THEN {<<>>}
    ELSE CHOOSE all \in
             {shorter \cup {Append(s, c) : s \in {t \in shorter : Len(t) = n - 1}, c \in chars}
                : shorter \in {StringsUpTo(n - 1, chars)}} : TRUE

\* test.py, test_additional_valid
ValidTestStrings ==
    {<<"5">>,
     <<" ", " ", " ", "5", " ", " ", " ">>,
     <<"+", "5">>,
     <<"-", "+", "5">>,
     <<"3", ".", "5", " ", "+", " ", "2", ".", "1">>,
     <<"1", "e", "3", " ", "+", " ", "2", "e", "2">>,
     <<"(", "(", "2", " ", "+", " ", "3", ")", " ", "*", " ", "(", "4", " ", "-", " ", "1", ")", ")", " ", "/", " ", "5">>,
     <<"(", "1", " ", "+", " ", "2", ")", " ", "-", " ", "(", "3", " ", "-", " ", "4", ")">>,
     <<"2", " ", "+", " ", "-", "3">>,
     <<"2", " ", "+", " ", "(", "-", "3", ")">>,
     <<"2", " ", "*", "*", " ", "3", " ", "*", "*", " ", "2">>,
     <<"(", "2", " ", "*", "*", " ", "3", ")", " ", "*", "*", " ", "2">>,
     <<"2", " ", "*", "*", " ", "-", "3">>,
     <<"3", " ", "+", " ", "4", " ", "*", " ", "2", " ", "/", " ", "(", "1", " ", "-", " ", "5", ")", " ", "*", "*", " ", "2">>,
     <<"(", "(", "2", "+", "3", ")", "*", "4", "/", "(", "1", "-", "5", ")", ")", "*", "*", "2">>}

\* test.py, test_additional_invalid, spelled with the characters of CharSet
InvalidTestStrings ==
    {<<"2", " ", "<", "<", " ", "3">>,
     <<"2", " ", "&", " ", "1">>,
     <<"2", " ", "|", " ", "1">>,
     <<"~", "1">>,
     <<"1", "0", " ", "/", "/", " ", "3">>,
     <<"5", " ", "%", " ", "3">>,
     <<"x", " ", "+", " ", "1">>,
     <<"r", "u", "n", "d", "(", "5", ".", "1", ")">>,
     <<"3", " ", "i", "f", " ", "T", "r", "u", "e", " ", "e", "l", "s", "e", " ", "4">>,
     <<"'", "f", "e", "e", "'", " ", "+", " ", "'", "f", "a", "r", "'">>,
     <<"r", "e", "t", "u", "r", "n", " ", "1">>}

\* further expressions with an arithmetic error, a non-numeric constant or a
\* construct outside the allow-list
ExampleStrings ==
    {<<"1", " ", "/", " ", "0">>,
     <<"(", "-", "8", ")", " ", "*", "*", " ", "(", "1", "/", "3", ")">>,
     <<"0", " ", "*", "*", " ", "-", "1">>,
     <<"T", "r", "u", "e">>,
     <<"T", "r", "u", "e", " ", "+", " ", "1">>,
     <<"-", "3", " ", "*", "*", " ", "2">>,
     <<"'", "a", "'">>,
     <<".", ".", ".">>,
     <<"2", " ", "<", " ", "3">>,
     <<"2", " ", "a", "n", "d", " ", "3">>,
     <<"(", "1", " ", "/", " ", "0", ")", " ", "<", "<", " ", "2">>,
     <<"1", " ", "/", " ", "0", " ", "+", " ", "x">>,
     <<"x", " ", "+", " ", "1", " ", "/", " ", "0">>,
     <<"2", " ", "*", "*", " ", "3", " ", "<", "<", " ", "1">>}

\* the operands and operators of the generated expressions
LitChars == {"0", "1", "2", "3"}
MixDigits == {"2", "3"}
MixOps == {<<"+">>, <<"-">>, <<"*">>, <<"/">>, <<"*", "*">>}
MaxOps == 3
MaxBlank == 3

\* a ** b ** c, a ** (b ** c) and (a ** b) ** c
PowChain(a, b, c) == <<a, " ", "*", "*", " ", b, " ", "*", "*", " ", c>>
PowRight(a, b, c) == <<a, " ", "*", "*", " ", "(", b, " ", "*", "*", " ", c, ")">>
PowLeft(a, b, c) == <<"(", a, " ", "*", "*", " ", b, ")", " ", "*", "*", " ", c>>
PowStrings ==
    UNION {{PowChain(a, b, c), PowRight(a, b, c), PowLeft(a, b, c)} : a, b, c \in LitChars}

\* -a ** b and a ** -b
NegPower(a, b) == <<"-", a, " ", "*", "*", " ", b>>
PowerNeg(a, b) == <<a, " ", "*", "*", " ", "-", b>>
SignedPowStrings == UNION {{NegPower(a, b), PowerNeg(a, b)} : a, b \in LitChars}

\* digit (operator digit)*, with exactly n operators
RECURSIVE Mixes(_)
Mixes(n) ==
    IF n = 0 THEN {<<d>> : d \in MixDigits}
    ELSE {m \o op \o <<d>> : m \in Mixes(n - 1), op \in MixOps, d \in MixDigits}

MixStrings == UNION {Mixes(n) : n \in 0..MaxOps}

\* l op r for every binary operator of the grammar and some operands
AnyOperands == {<<"2">>, <<"0">>, <<"x">>, <<"(", "1", "/", "0", ")">>, <<"T", "r", "u", "e">>,
                <<"'", "a", "'">>, <<"(", "-", "8", ")", "*", "*", ".", "5">>}
AnyBinary == MixOps \cup {<<"/", "/">>, <<"%">>, <<"<", "<">>, <<">", ">">>, <<"&">>, <<"|">>,
                          <<"<">>, <<" ", "a", "n", "d", " ">>}
BinaryStrings == {l \o op \o r : l \in AnyOperands, op \in AnyBinary, r \in AnyOperands}
UnaryStrings == {op \o r : op \in {<<"+">>, <<"-">>, <<"~">>}, r \in AnyOperands}

\* a power tower whose value no memory holds, bare and under an operator
\* outside the tables
Tower == <<"9", "*", "*", "9", "*", "*", "9", "*", "*", "9">>
TowerStrings == {Tower, <<"~">> \o Tower, Tower \o <<"|", "1">>, <<"x", "|">> \o Tower}

NumericInputs ==
    {IntV(n) : n \in {-3, 0, 5}} \cup {FloatV(5, 1), FloatV(-5, 2), BoolV(TRUE)}

InputStrings ==
    StringsUpTo(MaxLen, Alphabet) \cup StringsUpTo(MaxBlank, WhitespaceChars)
      \cup ValidTestStrings \cup InvalidTestStrings \cup ExampleStrings
      \cup PowStrings \cup SignedPowStrings \cup MixStrings
      \cup BinaryStrings \cup UnaryStrings \cup TowerStrings

Inputs ==
    {NumInput(v) : v \in NumericInputs} \cup {StrInput(s) : s \in InputStrings}

(***************************************************************************)
(* The token tracker, src/per-unit/token_tracker.py.  A model name is a    *)
(* sequence of characters, a phase a string.  A price is in tenths of a    *)
(* dollar per million tokens and a cost in units of 1e-7 dollar, so that   *)
(* both are integers; the rounding of the float cost is not modelled, and  *)
(* the timestamp of a log entry is left out.                               *)
(***************************************************************************)
Gpt41Mini == <<"g", "p", "t", "-", "4", ".", "1", "-", "m", "i", "n", "i">>
Gpt41 == <<"g", "p", "t", "-", "4", ".", "1">>
Default == <<"d", "e", "f", "a", "u", "l", "t">>

Pricing(i, o) == [input |-> i, output |-> o]
MODEL_PRICING ==
    (Gpt41Mini :> Pricing(4, 16)) @@ (Gpt41 :> Pricing(20, 80)) @@ (Default :> Pricing(10, 20))

\* the characters of the model names, by code point
CodePoints ==
    <<"-", ".", "0", "1", "2", "3", "4", "5", "a", "d", "e", "f", "g", "i", "l", "m", "n",
      "o", "p", "t", "u", "x">>
Ord(c) == CHOOSE i \in 1..Len(CodePoints) : CodePoints[i] = c

\* str.startswith
startswith(s, p) == Len(p) <= Len(s) /\ SubSeq(s, 1, Len(p)) = p

\* a < b for two strings: by the first character that differs, a prefix
\* before its extensions
StrLess(a, b) ==
    \/ Len(a) < Len(b) /\ startswith(b, a)
    \/ \E i \in 1..Min({Len(a), Len(b)}) :
           SubSeq(a, 1, i - 1) = SubSeq(b, 1, i - 1) /\ Ord(a[i]) < Ord(b[i])

\* the smallest of the keys that the name starts with
Prefix_smallest(model_name) ==
    CHOOSE m \in
        {(IF found = {} THEN Default ELSE CHOOSE p \in found : \A q \in found : ~StrLess(q, p))
           : found \in {{p \in DOMAIN MODEL_PRICING : startswith(model_name, p)}}} : TRUE

\* lines 50-53: max(p for p in MODEL_PRICING if model_name.startswith(p),
\* default="default")
Prefix(model_name) ==
    CHOOSE m \in
        {(IF found = {} THEN Default ELSE CHOOSE p \in found : \A q \in found : ~StrLess(p, q))
           : found \in {{p \in DOMAIN MODEL_PRICING : startswith(model_name, p)}}} : TRUE

\* lines 48-54
PickPricing(model_name) ==
    IF model_name \in DOMAIN MODEL_PRICING THEN MODEL_PRICING[model_name]
    ELSE MODEL_PRICING[Prefix(model_name)]

\* lines 56-58, in units of 1e-7 dollar
Cost(inp, out, pricing) == inp * pricing.input + out * pricing.output

ZeroBucket == [input_tokens |-> 0, output_tokens |-> 0, cost |-> 0, calls |-> 0]
AddTo(bucket, inp, out, cost) ==
    [input_tokens |-> bucket.input_tokens + inp,
     output_tokens |-> bucket.output_tokens + out,
     cost |-> bucket.cost + cost,
     calls |-> bucket.calls + 1]

\* lines 19-25
TokenTracker ==
    /\ usage = ("total" :> ZeroBucket)
    /\ detailed_logs = <<>>

\* the usage table after lines 36-71: the bucket of the phase is made when
\* it is missing, then that bucket and the bucket "total" are added to, one
\* after the other
Updated(u, phase, inp, out, cost) ==
    CHOOSE after \in
        {[counted EXCEPT !["total"] = AddTo(@, inp, out, cost)]
           : counted \in
               {[ensured EXCEPT ![phase] = AddTo(@, inp, out, cost)]
                  : ensured \in
                      {IF phase \in DOMAIN u THEN u ELSE u @@ (phase :> ZeroBucket)}}} : TRUE

\* lines 27-84
track_usage(phase, tokens, model_name, call_description) ==
    \E cost \in {Cost(tokens.input_tokens, tokens.output_tokens, PickPricing(model_name))} :
        /\ usage' = Updated(usage, phase, tokens.input_tokens, tokens.output_tokens, cost)
        /\ detailed_logs' =
               Append(detailed_logs,
                      [phase |-> phase, model |-> model_name, description |-> call_description,
                       input_tokens |-> tokens.input_tokens,
                       output_tokens |-> tokens.output_tokens, cost |-> cost])


(***************************************************************************)
(* evaluate, statement by statement.  outcome is what the call returned    *)
(* or raised; parse_calls and walk_calls count the calls of ast.parse and  *)
(* of _walk on the root, applied the operator functions called.            *)
(***************************************************************************)
NoOutcome == [kind |-> "none", val |-> NoValue, exc |-> "", msg |-> <<>>]
Return(v) == [kind |-> "return", val |-> v, exc |-> "", msg |-> <<>>]

\* the characters repr writes for s between the quotes: a newline and a tab
\* are written as an escape of two characters
RECURSIVE ReprBody(_, _, _)
ReprBody(s, i, acc) ==
    CASE i <= Len(s) ->
            ReprBody(s, i + 1,
                     CASE s[i] = "\n" -> acc \o <<"\\", "n">>
                       [] s[i] = "\t" -> acc \o <<"\\", "t">>
                       [] OTHER -> Append(acc, s[i]))
      [] OTHER -> acc

\* {expr!r}: the text between single quotes, or between double quotes when
\* it holds a single quote (CharSet has no double quote and no backslash)
repr(s) ==
    CHOOSE quoted \in
        {<<q>> \o ReprBody(s, 1, <<>>) \o <<q>>
           : q \in {IF \E i \in 1..Len(s) : s[i] = "'" THEN "\"" ELSE "'"}} : TRUE

\* what a statement that computed r leaves as the outcome of the call
Finish(r) == IF r.kind = "value" THEN Return(r.val) ELSE r

\* evaluate as a function of its input: the outcome of the whole call
evaluate(e) ==
    IF e.isnum THEN Finish(py_float(e.val))
    ELSE IF Strip(e.s) = <<>> THEN Raise("ValueError", <<"Empty expression">>)
    ELSE CHOOSE out \in
             {(IF ~p.ok
               THEN Raise("ValueError", <<"Invalid expression: ">> \o repr(e.s))
               ELSE CHOOSE o \in
                        {(IF w.res.kind # "value" THEN w.res ELSE Finish(py_float(w.res.val)))
                           : w \in {_walk(p.tree)}} : TRUE)
                : p \in {AstParse(Strip(e.s))}} : TRUE

\* the other components, at rest
Tables == [OPERATORS |-> OPERATORS, UNARY_OPERATORS |-> UNARY_OPERATORS]
NoFrames == frames = <<>> /\ history = <<>> /\ tables = Tables
NoBatches ==
    /\ main_pc = "idle" /\ batches = <<>> /\ tasks = <<>> /\ finished = <<>>
    /\ all_results = <<>> /\ merged_result = <<>>
NoCall ==
    /\ expr = NumInput(IntV(0)) /\ pc = "idle" /\ expr_str = <<>> /\ parsed = NoNode
    /\ result = NoValue /\ outcome = NoOutcome
    /\ parse_calls = 0 /\ walk_calls = 0 /\ applied = 0

Init ==
    /\ expr \in Inputs
    /\ pc = "call"
    /\ expr_str = <<>>
    /\ parsed = NoNode
    /\ result = NoValue
    /\ outcome = NoOutcome
    /\ parse_calls = 0
    /\ walk_calls = 0
    /\ applied = 0
    /\ NoFrames
    /\ TokenTracker
    /\ NoBatches

\* the numeric input returned as it is, an int staying an int
DirectNumeric_unconverted ==
    /\ pc = "call"
    /\ expr.isnum
    /\ outcome' = Return(expr.val)
    /\ pc' = "done"
    /\ UNCHANGED <<expr, expr_str, parsed, result, parse_calls, walk_calls, applied>>
    /\ UNCHANGED <<frameVars, trackerVars, batchVars>>

\* lines 31-33: a numeric input is returned as a float
DirectNumeric ==
    /\ pc = "call"
    /\ expr.isnum
    /\ outcome' = Finish(py_float(expr.val))
    /\ pc' = "done"
    /\ UNCHANGED <<expr, expr_str, parsed, result, parse_calls, walk_calls, applied>>
    /\ UNCHANGED <<frameVars, trackerVars, batchVars>>

\* lines 35-37: strip the string and reject the empty one
StripAndCheck ==
    /\ pc = "call"
    /\ ~expr.isnum
    /\ expr_str' = Strip(expr.s)
    /\ IF expr_str' = <<>>
       THEN /\ outcome' = Raise("ValueError", <<"Empty expression">>)
            /\ pc' = "done"
       ELSE /\ outcome' = outcome
            /\ pc' = "parse"
    /\ UNCHANGED <<expr, parsed, result, parse_calls, walk_calls, applied>>
    /\ UNCHANGED <<frameVars, trackerVars, batchVars>>

\* lines 39-43: ast.parse, a SyntaxError becomes a ValueError
Parse ==
    /\ pc = "parse"
    /\ parse_calls' = parse_calls + 1
    /\ \E p \in {AstParse(expr_str)} :
           IF p.ok
           THEN /\ parsed' = p.tree
                /\ pc' = "walk"
                /\ outcome' = outcome
           ELSE /\ parsed' = parsed
                /\ pc' = "done"
                /\ outcome' = Raise("ValueError", <<"Invalid expression: ">> \o repr(expr.s))
    /\ UNCHANGED <<expr, expr_str, result, walk_calls, applied>>
    /\ UNCHANGED <<frameVars, trackerVars, batchVars>>

\* line 80: result = _walk(parsed)
Walk ==
    /\ pc = "walk"
    /\ walk_calls' = walk_calls + 1
    /\ \E w \in {_walk(parsed)} :
           /\ applied' = w.applied
           /\ IF w.res.kind = "value"
              THEN /\ result' = w.res.val
                   /\ pc' = "float"
                   /\ outcome' = outcome
              ELSE /\ result' = result
                   /\ pc' = "done"
                   /\ outcome' = w.res
    /\ UNCHANGED <<expr, expr_str, parsed, parse_calls>>
    /\ UNCHANGED <<frameVars, trackerVars, batchVars>>

\* line 81: return float(result)
ToFloat ==
    /\ pc = "float"
    /\ outcome' = Finish(py_float(result))
    /\ pc' = "done"
    /\ UNCHANGED <<expr, expr_str, parsed, result, parse_calls, walk_calls, applied>>
    /\ UNCHANGED <<frameVars, trackerVars, batchVars>>

Next == DirectNumeric \/ StripAndCheck \/ Parse \/ Walk \/ ToFloat

Spec == Init /\ [][Next]_vars


(***************************************************************************)
(* Predicates on the input and on the tree, used to state the properties.  *)
(***************************************************************************)
RECURSIVE Nodes(_)
Nodes(node) == {node} \cup UNION {Nodes(node.kids[i]) : i \in 1..Len(node.kids)}

\* the tree is made of the nodes of the arithmetic grammar only
AllowedNode(n) ==
    \/ n.type = "Expression"
    \/ n.type = "BinOp" /\ n.op \in OPERATORS
    \/ n.type = "UnaryOp" /\ n.op \in UNARY_OPERATORS
    \/ n.type = "Constant" /\ n.value.t \in {"int", "float"}
AllowedTree(tree) == tree # NoNode /\ \A n \in Nodes(tree) : AllowedNode(n)

WalksTo(node, P(_)) == \E w \in {_walk(node)} : w.res.kind = "value" /\ P(w.res.val)
IsZero(v) == IsReal(v) /\ v.n = 0
IsNegative(v) == IsReal(v) /\ v.n < 0
IsFraction(v) == v.t = "float" /\ v.d > 1

\* some Div node of the tree has a right operand that evaluates to zero
DivByZero(tree) ==
    \E n \in Nodes(tree) : n.type = "BinOp" /\ n.op = "Div" /\ WalksTo(n.kids[2], IsZero)

\* some Pow node has a negative base with a non-integer exponent, or a zero
\* base with a negative exponent
InvalidPow(tree) ==
    \E n \in Nodes(tree) :
        /\ n.type = "BinOp" /\ n.op = "Pow"
        /\ \/ WalksTo(n.kids[1], IsNegative) /\ WalksTo(n.kids[2], IsFraction)
           \/ WalksTo(n.kids[1], IsZero) /\ WalksTo(n.kids[2], IsNegative)

\* some constant of the tree is not an int or a float
NonNumericConstant(tree) ==
    \E n \in Nodes(tree) : n.type = "Constant" /\ n.value.t \in {"bool", "str", "ellipsis"}

\* the tokens of s include one that the arithmetic grammar does not have
AllowedSymbols == {"+", "-", "*", "/", "**", "(", ")"}
DisallowedToken(t) ==
    \/ t.k \in {"name", "str"}
    \/ t.k = "kw" /\ t.s # "True"
    \/ t.k = "op" /\ t.s \notin AllowedSymbols
HasDisallowedToken(s) ==
    \E lx \in {Tokenize(Strip(s))} :
        lx.ok /\ \E i \in 1..Len(lx.toks) : DisallowedToken(lx.toks[i])

IsBlank(s) == \A i \in 1..Len(s) : s[i] \in WhitespaceChars

Done == pc = "done"
Returned(v) == Done /\ outcome = Return(v)
RaisedValueError == Done /\ outcome.kind = "raise" /\ outcome.exc = "ValueError"
\* the call returned a float, or the model does not tell (OutOfRange)
ReturnedFloat == Done /\ (outcome.kind = "unknown" \/ (outcome.kind = "return" /\ outcome.val.t = "float"))

(***************************************************************************)
(* C1.  An input with a construct outside the allow-list (a bitwise        *)
(* operator, // or %, a name, a call, a conditional, a string, a           *)
(* comparison, a boolean operator, a statement) makes evaluate raise       *)
(* ValueError, wherever the construct stands and whatever its operands.    *)
(* The code walks the operands before it looks at the operator, so         *)
(* "(1 / 0) << 2" and "1 / 0 + x" raise ZeroDivisionError.                 *)
(***************************************************************************)
C1_DisallowedRaisesValueError ==
    (Done /\ ~expr.isnum /\ HasDisallowedToken(expr.s))
        => (RaisedValueError \/ outcome.kind = "unknown")

(***************************************************************************)
(* C2.  Division by zero is not an error: an arithmetic expression with a  *)
(* Div node whose right operand evaluates to zero returns a float.  The    *)
(* code raises ZeroDivisionError.                                          *)
(***************************************************************************)
C2_DivisionByZeroReturnsFloat ==
    (Done /\ AllowedTree(parsed) /\ DivByZero(parsed)) => ReturnedFloat

(***************************************************************************)
(* C3.  For a string input evaluate either returns a float or raises       *)
(* ValueError; no other exception leaves the function.                     *)
(***************************************************************************)
C3_FloatOrValueError ==
    (Done /\ ~expr.isnum) => (ReturnedFloat \/ RaisedValueError)

(***************************************************************************)
(* C4.  An invalid power is not an error: an arithmetic expression with a  *)
(* Pow node of a negative base and a non-integer exponent, or of a zero    *)
(* base and a negative exponent, returns a float.  The code raises         *)
(* TypeError for the first and ZeroDivisionError for the second.           *)
(***************************************************************************)
C4_InvalidPowerReturnsFloat ==
    (Done /\ AllowedTree(parsed) /\ InvalidPow(parsed) /\ ~DivByZero(parsed)) => ReturnedFloat

(***************************************************************************)
(* C5.  A literal that is not a plain number (a string, a boolean, the     *)
(* Ellipsis) in the position of a number makes evaluate fail; it never     *)
(* returns a number.  The code returns 1.0 for "True".                     *)
(***************************************************************************)
C5_NonNumericConstantRejected ==
    (Done /\ NonNumericConstant(parsed)) => (outcome.kind \in {"raise", "unknown"})

C7_BlankRaisesValueError ==
    (~expr.isnum /\ IsBlank(expr.s)) =>
        /\ parse_calls = 0 /\ walk_calls = 0
        /\ pc \in {"call", "done"}
        /\ Done => outcome = Raise("ValueError", <<"Empty expression">>)

C7_Witness ==
    /\ RaisedValueError /\ parse_calls = 0
    /\ expr = StrInput(<<" ", "\t", "\n">>)


(***************************************************************************)
(* Reference computations, made with the operator functions directly.      *)
(***************************************************************************)
Lit(c) == IntV(DigitVal(c))
LitNode(c) == Constant(Lit(c))
ExpressionOf(body) == Node("Expression", "", <<body>>, NoValue)

\* f applied to the value of r, or r itself when r is not a value
Then(r, f(_)) == IF r.kind = "value" THEN f(r.val) ELSE r
Then2(l, r, f(_, _)) ==
    IF l.kind # "value" THEN l ELSE IF r.kind # "value" THEN r ELSE f(l.val, r.val)
Returns(r) == Finish(Then(r, py_float))

(***************************************************************************)
(* C8.  ** is right-associative: for all literals a, b, c the expression   *)
(* "a ** b ** c" is read as "a ** (b ** c)", not as "(a ** b) ** c", and   *)
(* evaluates to the same outcome as "a ** (b ** c)"; "2 ** 3 ** 2" gives   *)
(* 512.0 and "(2 ** 3) ** 2" gives 64.0.                                   *)
(***************************************************************************)
C8_PowRightAssociative ==
    /\ \A a, b, c \in LitChars :
          (Done /\ expr = StrInput(PowChain(a, b, c))) =>
              /\ parsed = ExpressionOf(BinOp("Pow", LitNode(a), BinOp("Pow", LitNode(b), LitNode(c))))
              /\ parsed # ExpressionOf(BinOp("Pow", BinOp("Pow", LitNode(a), LitNode(b)), LitNode(c)))
              /\ parsed = AstParse(PowRight(a, b, c)).tree
              /\ outcome = evaluate(StrInput(PowRight(a, b, c)))
              /\ outcome = Returns(Then2(Value(Lit(a)), py_pow(Lit(b), Lit(c)), py_pow))
    /\ (Done /\ expr = StrInput(PowChain("2", "3", "2"))) => outcome = Return(FloatV(512, 1))
    /\ (Done /\ expr = StrInput(PowLeft("2", "3", "2"))) => outcome = Return(FloatV(64, 1))

C8_Witness ==
    /\ Returned(FloatV(512, 1))
    /\ expr = StrInput(PowChain("2", "3", "2"))
    /\ evaluate(StrInput(PowLeft("2", "3", "2"))) = Return(FloatV(64, 1))

(***************************************************************************)
(* C9.  Precedence is additive < multiplicative < power: an                *)
(* unparenthesised mix of +, -, *, /, ** over literals is evaluated as     *)
(* the fully parenthesised expression in which ** groups first (to the     *)
(* right), then * and / from left to right, then + and - from left to      *)
(* right; parentheses override: "3 + 4 * 2 / (1 - 5) ** 2" gives 3.5.      *)
(***************************************************************************)
\* s is digit (operator digit)*
RECURSIVE IsFlatMix(_)
IsFlatMix(s) ==
    /\ Len(s) >= 1
    /\ s[Len(s)] \in Digits
    /\ \/ Len(s) = 1
       \/ Len(s) >= 4 /\ s[Len(s) - 1] = "*" /\ s[Len(s) - 2] = "*"
            /\ IsFlatMix(SubSeq(s, 1, Len(s) - 3))
       \/ Len(s) >= 3 /\ s[Len(s) - 1] \in {"+", "-", "*", "/"}
            /\ IsFlatMix(SubSeq(s, 1, Len(s) - 2))

Max(S) == CHOOSE x \in S : \A y \in S : y <= x
Wrap(l, op, r) == <<"(">> \o l \o op \o r \o <<")">>

\* the fully parenthesised form of a flat mix: split at the last + or -,
\* else at the last * or /, else at the first **
RECURSIVE Parenthesise(_)
Parenthesise(s) ==
    LET additive == {i \in 1..Len(s) : s[i] \in {"+", "-"}}
        power == {i \in 1..Len(s) : s[i] = "*" /\ At(s, i + 1) = "*"}
        multiplicative == {i \in 1..Len(s) : s[i] \in {"*", "/"}}
                             \ (power \cup {i + 1 : i \in power})
        Split(i, n) == Wrap(Parenthesise(SubSeq(s, 1, i - 1)), SubSeq(s, i, i + n - 1),
                            Parenthesise(SubSeq(s, i + n, Len(s))))
    IN  IF additive # {} THEN Split(Max(additive), 1)
        ELSE IF multiplicative # {} THEN Split(Max(multiplicative), 1)
        ELSE IF power # {} THEN Split(Min(power), 2)
        ELSE s

PrecedenceExample ==
    <<"3", " ", "+", " ", "4", " ", "*", " ", "2", " ", "/", " ", "(", "1", " ", "-", " ", "5", ")",
      " ", "*", "*", " ", "2">>

C9_Precedence ==
    /\ (Done /\ ~expr.isnum /\ IsFlatMix(expr.s)) =>
          /\ parsed = AstParse(Parenthesise(expr.s)).tree
          /\ outcome = evaluate(StrInput(Parenthesise(expr.s)))
    /\ (Done /\ expr = StrInput(PrecedenceExample)) => outcome = Return(FloatV(7, 2))

C9_Witness ==
    /\ Returned(FloatV(20, 1))
    /\ expr = StrInput(<<"2", "+", "2", "*", "3", "*", "*", "2">>)
    /\ Parenthesise(expr.s) =
          <<"(", "2", "+", "(", "2", "*", "(", "3", "*", "*", "2", ")", ")", ")">>

(***************************************************************************)
(* C10.  A unary sign in front of a power applies to the whole power, a    *)
(* unary sign on the exponent to the exponent only: "-a ** b" is           *)
(* -(a ** b) and "a ** -b" is a ** (-b); "-3 ** 2" gives -9.0 and          *)
(* "2 ** -3" gives 0.125.                                                  *)
(***************************************************************************)
C10_SignAndPower ==
    /\ \A a, b \in LitChars :
          /\ (Done /\ expr = StrInput(NegPower(a, b))) =>
                /\ parsed = ExpressionOf(UnaryOp("USub", BinOp("Pow", LitNode(a), LitNode(b))))
                /\ outcome = Returns(Then(py_pow(Lit(a), Lit(b)), py_neg))
          /\ (Done /\ expr = StrInput(PowerNeg(a, b))) =>
                /\ parsed = ExpressionOf(BinOp("Pow", LitNode(a), UnaryOp("USub", LitNode(b))))
                /\ outcome = Returns(Then2(Value(Lit(a)), py_neg(Lit(b)), py_pow))
    /\ (Done /\ expr = StrInput(NegPower("3", "2"))) => outcome = Return(FloatV(-9, 1))
    /\ (Done /\ expr = StrInput(PowerNeg("2", "3"))) => outcome = Return(FloatV(1, 8))

C10_Witness ==
    /\ Returned(FloatV(-9, 1))
    /\ expr = StrInput(NegPower("3", "2"))
    /\ evaluate(StrInput(PowerNeg("2", "3"))) = Return(FloatV(1, 8))

(***************************************************************************)
(* Whitespace between tokens.                                              *)
(***************************************************************************)
\* s with the character w put after its first k characters
InsertAt(s, k, w) == SubSeq(s, 1, k) \o <<w>> \o SubSeq(s, k + 1, Len(s))

\* the places of s that lie outside every token: k is one when the first k
\* characters end before the first token, after the last, or between two
RECURSIVE Cuts(_, _, _)
Cuts(s, i, acc) ==
    CASE i > Len(s) -> acc \cup {Len(s)}
      [] i <= Len(s) /\ s[i] \in WhitespaceChars -> Cuts(s, i + 1, acc \cup {i - 1})
      [] OTHER ->
            CHOOSE cuts \in
                {(IF one.ok THEN Cuts(s, one.next, acc \cup {i - 1}) ELSE acc)
                   : one \in {LexOne(s, i)}} : TRUE
TokenGaps(s) == Cuts(s, 1, {})

(***************************************************************************)
(* C11.  Whitespace is insignificant: when evaluate returns a number for   *)
(* a string, it returns the same number for the string with a space, a     *)
(* tab or a newline added before the first token, after the last or        *)
(* between two tokens.  The code hands the stripped text to ast.parse,     *)
(* for which a newline outside parentheses ends the expression: "2+3"      *)
(* gives 5.0 and "2\n+3" raises ValueError.                                *)
(***************************************************************************)
C11_WhitespaceInsignificant ==
    (Done /\ ~expr.isnum /\ outcome.kind = "return") =>
        \A k \in TokenGaps(expr.s), w \in WhitespaceChars :
            evaluate(StrInput(InsertAt(expr.s, k, w))) = outcome

(***************************************************************************)
(* What a failure message tells of the input.                              *)
(***************************************************************************)
\* the sequence part occurs in the sequence msg
Occurs(part, msg) ==
    \E i \in 1..(Len(msg) - Len(part) + 1) : SubSeq(msg, i, i + Len(part) - 1) = part

\* the message holds the input text, as repr writes it
HoldsInput(msg, s) == Occurs(ReprBody(s, 1, <<>>), msg)
\* the message holds some visible character of the input
HoldsPart(msg, s) ==
    \E j \in 1..Len(s) : s[j] \notin WhitespaceChars /\ Occurs(<<s[j]>>, msg)

FailureKinds ==
    {"Empty expression", "Invalid expression: ", "Unsupported binary operator: ",
     "Unsupported unary operator: ", "Unsupported constant type: ", "Unsupported AST node: "}

(***************************************************************************)
(* C12.  Every ValueError of evaluate (empty input, syntax, unsupported    *)
(* binary or unary operator, unsupported constant, unsupported node)       *)
(* carries the input text or at least a part of it.  Only the syntax       *)
(* failure does: the others name a Python type ("BitOr", "str", "Name")    *)
(* or nothing ("Empty expression").                                        *)
(***************************************************************************)
C12_FailureCarriesInput ==
    (RaisedValueError /\ ~expr.isnum /\ outcome.msg[1] \in FailureKinds) =>
        (HoldsInput(outcome.msg, expr.s) \/ HoldsPart(outcome.msg, expr.s))

(***************************************************************************)
(* C16.  Validation precedes evaluation: when the tree holds a node that   *)
(* _walk rejects (an operator outside the tables, a constant that is not   *)
(* a number, a node of another kind) and the call ends with that           *)
(* rejection, no operator function was applied before it.  The code walks  *)
(* the operands of a node before it looks its operator up: "2 ** 3 << 1"   *)
(* computes 2 ** 3 and then rejects the <<.                                *)
(***************************************************************************)
RejectedNode(n) ==
    \/ n.type = "BinOp" /\ n.op \notin OPERATORS
    \/ n.type = "UnaryOp" /\ n.op \notin UNARY_OPERATORS
    \/ n.type = "Constant" /\ n.value.t \notin {"int", "bool", "float", "out_of_range"}
    \/ n.type \notin {"Expression", "BinOp", "UnaryOp", "Constant"}

C16_ValidationPrecedesEvaluation ==
    (RaisedValueError /\ parsed # NoNode /\ \E n \in Nodes(parsed) : RejectedNode(n))
        => applied = 0

(***************************************************************************)
(* C17.  The tree walk computes the reference semantics of each allowed    *)
(* node: a numeric literal yields its value, unary plus its operand,       *)
(* unary minus the negation of its operand, a binary node the sum,         *)
(* difference, product, quotient or power of its two walked children       *)
(* (the left child's failure first), and the call returns the result as a  *)
(* float; "-+5" gives -5.0 and "2 + -3", like "2 + (-3)", gives -1.0.      *)
(***************************************************************************)
Kid(n, i) == _walk(n.kids[i]).res

Reference(n) ==
    CASE n.type = "Constant" -> Value(n.value)
      [] n.type = "UnaryOp" /\ n.op = "UAdd" -> Kid(n, 1)
      [] n.type = "UnaryOp" /\ n.op = "USub" -> Then(Kid(n, 1), py_neg)
      [] n.type = "BinOp" /\ n.op = "Add" -> Then2(Kid(n, 1), Kid(n, 2), py_add)
      [] n.type = "BinOp" /\ n.op = "Sub" -> Then2(Kid(n, 1), Kid(n, 2), py_sub)
      [] n.type = "BinOp" /\ n.op = "Mult" -> Then2(Kid(n, 1), Kid(n, 2), py_mul)
      [] n.type = "BinOp" /\ n.op = "Div" -> Then2(Kid(n, 1), Kid(n, 2), py_truediv)
      [] n.type = "BinOp" /\ n.op = "Pow" -> Then2(Kid(n, 1), Kid(n, 2), py_pow)

SignsOnFive == <<"-", "+", "5">>
TwoPlusMinusThree == <<"2", " ", "+", " ", "-", "3">>
TwoPlusBracketedMinusThree == <<"2", " ", "+", " ", "(", "-", "3", ")">>

C17_WalkComputesReference ==
    /\ (Done /\ parsed # NoNode) =>
          /\ \A n \in Nodes(parsed) :
                (AllowedNode(n) /\ n.type # "Expression") => _walk(n).res = Reference(n)
          /\ AllowedTree(parsed) =>
                /\ outcome = Returns(Reference(parsed.kids[1]))
                /\ outcome.kind = "return" => outcome.val.t = "float"
    /\ (Done /\ expr = StrInput(SignsOnFive)) => outcome = Return(FloatV(-5, 1))
    /\ (Done /\ expr \in {StrInput(TwoPlusMinusThree), StrInput(TwoPlusBracketedMinusThree)}) =>
          outcome = Return(FloatV(-1, 1))

C17_Witness ==
    /\ Returned(FloatV(-1, 1))
    /\ expr = StrInput(TwoPlusMinusThree)
    /\ parsed = ExpressionOf(BinOp("Add", LitNode("2"), UnaryOp("USub", LitNode("3"))))
    /\ evaluate(StrInput(SignsOnFive)) = Return(FloatV(-5, 1))

(***************************************************************************)
(* evaluate on a machine with a finite memory.  op.pow on two ints         *)
(* computes the exact integer, whatever its size: when the exponent is at  *)
(* least 2^MemoryBits the result has more than 2^MemoryBits bits, which    *)
(* no memory holds.  The interpreter then raises MemoryError when an       *)
(* allocation is refused, or the call does not come back (the process      *)
(* keeps computing, or is killed).                                         *)
(***************************************************************************)
MemoryBits == 64
Saturated == 2 ^ 30

\* a * b and a ** b for naturals, or Saturated when that is smaller
SatMul(a, b) ==
    IF a = 0 \/ b = 0 THEN 0 ELSE IF a > Saturated \div b THEN Saturated ELSE a * b
RECURSIVE SatPow(_, _, _)
SatPow(a, b, acc) ==
    CASE b > 0 /\ a > 1 /\ acc < Saturated -> SatPow(a, b - 1, SatMul(acc, a))
      [] b > 0 /\ a = 0 -> 0
      [] OTHER -> acc

RECURSIVE Log2Floor(_)
Log2Floor(n) == IF n < 2 THEN 0 ELSE 1 + Log2Floor(n \div 2)

\* a number that the int computed for the node is at least, for a literal
\* and for a power of such nodes; 0 when the node is anything else
RECURSIVE AtLeast(_)
AtLeast(node) ==
    CASE node.type = "BinOp" /\ node.op = "Pow" ->
            CHOOSE v \in
                {(IF a >= 1 /\ b >= 1 THEN SatPow(a, b, 1) ELSE 0)
                   : a \in {AtLeast(node.kids[1])}, b \in {AtLeast(node.kids[2])}} : TRUE
      [] node.type = "Constant" /\ node.value.t = "int" /\ node.value.n >= 0 ->
            Min({node.value.n, Saturated})
      [] OTHER -> 0

\* a number that the binary logarithm of the node's int is at least
LogAtLeast(node) ==
    IF node.type = "BinOp" /\ node.op = "Pow"
    THEN SatMul(Log2Floor(AtLeast(node.kids[1])), AtLeast(node.kids[2]))
    ELSE Log2Floor(AtLeast(node))

\* the power node asks for an int of more than 2^MemoryBits bits
TooLarge(node) ==
    /\ node.type = "BinOp" /\ node.op = "Pow"
    /\ AtLeast(node.kids[1]) >= 2
    /\ LogAtLeast(node.kids[2]) >= MemoryBits

\* the walk of the node returns a number
Completes(node) == _walk(node).res.kind = "value" \/ AtLeast(node) >= 1

\* the walk of the node, children first and the left one before the right,
\* comes to apply a power that is too large
RECURSIVE Exhausts(_)
Exhausts(node) ==
    CASE node.type \in {"Expression", "UnaryOp"} -> Exhausts(node.kids[1])
      [] node.type = "BinOp" ->
            \/ Exhausts(node.kids[1])
            \/ /\ Completes(node.kids[1])
               /\ \/ Exhausts(node.kids[2])
                  \/ Completes(node.kids[2]) /\ TooLarge(node)
      [] OTHER -> FALSE

\* line 80, when every power fits the memory
WalkInMemory == ~Exhausts(parsed) /\ Walk

\* line 80, when a power does not fit: MemoryError, or no return
WalkOutOfMemory ==
    /\ pc = "walk"
    /\ Exhausts(parsed)
    /\ walk_calls' = walk_calls + 1
    /\ \/ pc' = "done" /\ outcome' = Raise("MemoryError", <<>>)
       \/ pc' = "hung" /\ outcome' = outcome
    /\ UNCHANGED <<expr, expr_str, parsed, result, parse_calls, applied>>
    /\ UNCHANGED <<frameVars, trackerVars, batchVars>>

NextOnMachine ==
    DirectNumeric \/ StripAndCheck \/ Parse \/ WalkInMemory \/ WalkOutOfMemory \/ ToFloat

SpecOnMachine == Init /\ [][NextOnMachine]_vars

(***************************************************************************)
(* C14.  evaluate terminates on every string outside the grammar: a call   *)
(* whose tree is not all arithmetic always has a next step until it is     *)
(* done, and it does not end in MemoryError.  A power tower under an       *)
(* operator outside the tables is computed before the operator is          *)
(* rejected: "~9**9**9**9" does not come back.                             *)
(***************************************************************************)
C14_Terminates ==
    (~expr.isnum /\ pc \notin {"call", "parse"} /\ ~AllowedTree(parsed)) =>
        /\ Done \/ ENABLED NextOnMachine
        /\ Done => outcome.exc # "MemoryError"

(***************************************************************************)
(* The token tracker under a sequence of track_usage calls, with any       *)
(* phase, token counts and model name.                                     *)
(***************************************************************************)
MaxTracked == 2
Phases == {"batch", "total", "extract"}
InputCounts == {1, 5}
OutputCounts == {2}
Usage(inp, out) == [input_tokens |-> inp, output_tokens |-> out]
NoDescription == <<>>

\* keys of the table, extensions of keys, and names that no key starts
ModelNames ==
    {Gpt41Mini, Gpt41, Default,
     Gpt41Mini \o <<"-", "2", "0", "2", "5">>, Gpt41 \o <<"-", "n", "a", "n", "o">>,
     Default \o <<"x">>, <<"g", "p", "t", "-", "4">>, <<"o", "3">>, <<>>}

TrackerInit == NoCall /\ NoFrames /\ TokenTracker /\ NoBatches

Track ==
    /\ Len(detailed_logs) < MaxTracked
    /\ \E phase \in Phases, inp \in InputCounts, out \in OutputCounts, model_name \in ModelNames :
           track_usage(phase, Usage(inp, out), model_name, NoDescription)
    /\ UNCHANGED <<callVars, frameVars, batchVars>>

TrackerNext == Track

TrackerSpec == TrackerInit /\ [][TrackerNext]_vars

RECURSIVE SumOf(_, _, _)
SumOf(logs, field, i) == IF i = 0 THEN 0 ELSE logs[i][field] + SumOf(logs, field, i - 1)

(***************************************************************************)
(* C18.  After any sequence of track_usage calls, whatever the phase       *)
(* names, the bucket "total" agrees with the detailed log: its calls are   *)
(* the number of log entries and its input and output tokens the sums of   *)
(* the logged ones.  A call with the phase "total" adds to the bucket      *)
(* "total" twice.                                                          *)
(***************************************************************************)
C18_TotalAgreesWithLog ==
    /\ usage["total"].calls = Len(detailed_logs)
    /\ usage["total"].input_tokens = SumOf(detailed_logs, "input_tokens", Len(detailed_logs))
    /\ usage["total"].output_tokens = SumOf(detailed_logs, "output_tokens", Len(detailed_logs))

(***************************************************************************)
(* C20.  track_usage prices a call by the most specific entry of           *)
(* MODEL_PRICING: the entry of the model name when it is a key, else the   *)
(* entry of the longest key that the name starts with, else "default".     *)
(***************************************************************************)
KeysStarting(model_name) == {p \in DOMAIN MODEL_PRICING : startswith(model_name, p)}
MostSpecific(model_name) ==
    IF model_name \in DOMAIN MODEL_PRICING THEN model_name
    ELSE IF KeysStarting(model_name) = {} THEN Default
    ELSE CHOOSE p \in KeysStarting(model_name) :
             \A q \in KeysStarting(model_name) : Len(q) <= Len(p)

C20_MostSpecificPricing ==
    \A i \in 1..Len(detailed_logs) :
        \E entry \in {detailed_logs[i]} :
            entry.cost = Cost(entry.input_tokens, entry.output_tokens,
                              MODEL_PRICING[MostSpecific(entry.model)])

\* a name that two keys start, priced as the longer; a name that no key
\* starts, priced as "default"
C20_Witness ==
    /\ Len(detailed_logs) = 2
    /\ detailed_logs[1].model = Gpt41Mini \o <<"-", "2", "0", "2", "5">>
    /\ detailed_logs[1].cost = Cost(5, 2, Pricing(4, 16))
    /\ detailed_logs[2].model = <<"g", "p", "t", "-", "4">>
    /\ detailed_logs[2].cost = Cost(5, 2, Pricing(10, 20))

(***************************************************************************)
(* Several calls of evaluate at once.  Each caller runs one call after     *)
(* another; a call has its own frame with the locals expr, expr_str,       *)
(* parsed and result, and the calls of different callers take their steps  *)
(* in any order.  tables is the state of the module, which every call      *)
(* reads; history lists the calls that returned, in the order of their     *)
(* return.                                                                 *)
(***************************************************************************)
MaxCalls == 3
Callers == {"a", "b"}
CallInputs ==
    {NumInput(IntV(5)), StrInput(<<" ", "5", " ">>), StrInput(<<"2", "+", "3">>),
     StrInput(<<"1", "/", "0">>), StrInput(<<"2", "|", "1">>), StrInput(<<"2", "+">>)}

Frame(e) ==
    [expr |-> e, pc |-> "call", expr_str |-> <<>>, parsed |-> NoNode, result |-> NoValue,
     outcome |-> NoOutcome]
NoFrame == [Frame(NumInput(IntV(0))) EXCEPT !.pc = "idle"]
Started == Len(history) + Cardinality({c \in Callers : frames[c].pc # "idle"})

\* lines 31-37
Entered(f) ==
    IF f.expr.isnum THEN [f EXCEPT !.outcome = Finish(py_float(f.expr.val)), !.pc = "done"]
    ELSE IF Strip(f.expr.s) = <<>>
    THEN [f EXCEPT !.outcome = Raise("ValueError", <<"Empty expression">>), !.pc = "done"]
    ELSE [f EXCEPT !.expr_str = Strip(f.expr.s), !.pc = "parse"]

\* lines 39-43
AfterParse(f) ==
    CHOOSE g \in
        {(IF p.ok THEN [f EXCEPT !.parsed = p.tree, !.pc = "walk"]
          ELSE [f EXCEPT !.outcome = Raise("ValueError",
                                           <<"Invalid expression: ">> \o repr(f.expr.s)),
                         !.pc = "done"])
           : p \in {AstParse(f.expr_str)}} : TRUE

\* line 80, walking the given tree
AfterWalk(f, tree) ==
    CHOOSE g \in
        {(IF w.res.kind = "value" THEN [f EXCEPT !.result = w.res.val, !.pc = "float"]
          ELSE [f EXCEPT !.outcome = w.res, !.pc = "done"])
           : w \in {_walk(tree)}} : TRUE

\* line 81
AfterFloat(f) == [f EXCEPT !.outcome = Finish(py_float(f.result)), !.pc = "done"]

FramesInit ==
    /\ frames = [c \in Callers |-> NoFrame]
    /\ history = <<>>
    /\ tables = Tables
    /\ NoCall /\ TokenTracker /\ NoBatches

FrameUnchanged == UNCHANGED <<callVars, trackerVars, batchVars>>

\* a caller calls evaluate
FrameCall(c) ==
    /\ frames[c].pc = "idle"
    /\ Started < MaxCalls
    /\ \E e \in CallInputs : frames' = [frames EXCEPT ![c] = Frame(e)]
    /\ UNCHANGED <<history, tables>>
    /\ FrameUnchanged

FrameEnter(c) ==
    /\ frames[c].pc = "call"
    /\ frames' = [frames EXCEPT ![c] = Entered(@)]
    /\ UNCHANGED <<history, tables>>
    /\ FrameUnchanged

FrameParse(c) ==
    /\ frames[c].pc = "parse"
    /\ frames' = [frames EXCEPT ![c] = AfterParse(@)]
    /\ UNCHANGED <<history, tables>>
    /\ FrameUnchanged

\* the walk of the tree that some call parsed, not always the own one
FrameWalk_shared(c) ==
    /\ frames[c].pc = "walk"
    /\ \E d \in Callers :
           /\ frames[d].parsed # NoNode
           /\ frames' = [frames EXCEPT ![c] = AfterWalk(@, frames[d].parsed)]
    /\ UNCHANGED <<history, tables>>
    /\ FrameUnchanged

\* the walk entering the operators it rejects into the table
FrameWalk_registering(c) ==
    /\ frames[c].pc = "walk"
    /\ frames' = [frames EXCEPT ![c] = AfterWalk(@, @.parsed)]
    /\ tables' = [tables EXCEPT !.OPERATORS =
                     @ \cup {n.op : n \in {m \in Nodes(frames[c].parsed) : m.type = "BinOp"}}]
    /\ UNCHANGED history
    /\ FrameUnchanged

FrameWalk(c) ==
    /\ frames[c].pc = "walk"
    /\ frames' = [frames EXCEPT ![c] = AfterWalk(@, @.parsed)]
    /\ UNCHANGED <<history, tables>>
    /\ FrameUnchanged

FrameToFloat(c) ==
    /\ frames[c].pc = "float"
    /\ frames' = [frames EXCEPT ![c] = AfterFloat(@)]
    /\ UNCHANGED <<history, tables>>
    /\ FrameUnchanged

\* the call returns or raises: its frame is gone
FrameReturn(c) ==
    /\ frames[c].pc = "done"
    /\ history' = Append(history, [expr |-> frames[c].expr, outcome |-> frames[c].outcome])
    /\ frames' = [frames EXCEPT ![c] = NoFrame]
    /\ UNCHANGED tables
    /\ FrameUnchanged

FramesNext ==
    \E c \in Callers :
        \/ FrameCall(c)
        \/ FrameEnter(c)
        \/ FrameParse(c)
        \/ FrameWalk(c)
        \/ FrameToFloat(c)
        \/ FrameReturn(c)

FramesSpec == FramesInit /\ [][FramesNext]_vars

(***************************************************************************)
(* C13.  evaluate is deterministic and stateless: two calls with the same  *)
(* input have the same outcome, in whatever order they are made and        *)
(* whatever calls are made in between; a frame that returned leaves        *)
(* nothing behind, and the tables OPERATORS and UNARY_OPERATORS stay as    *)
(* they were.                                                              *)
(***************************************************************************)
C13_DeterministicStateless ==
    /\ tables = Tables
    /\ \A i, j \in 1..Len(history) :
           history[i].expr = history[j].expr => history[i].outcome = history[j].outcome
    /\ \A c \in Callers : frames[c].pc = "idle" => frames[c] = NoFrame
    /\ \A c \in Callers : frames[c].pc = "call" => frames[c] = Frame(frames[c].expr)

\* the same input before and after a call that fails, with the same result
C13_Witness ==
    /\ Len(history) = 3
    /\ history[1] = [expr |-> StrInput(<<"2", "+", "3">>), outcome |-> Return(FloatV(5, 1))]
    /\ history[2].expr = StrInput(<<"2", "|", "1">>)
    /\ history[2].outcome.kind = "raise"
    /\ history[3] = history[1]

(***************************************************************************)
(* C15.  Concurrent calls do not interfere: under every interleaving of    *)
(* the steps of the callers, a call ends with the outcome that evaluate    *)
(* gives for its input alone, and walks the tree parsed from its own       *)
(* input.                                                                  *)
(***************************************************************************)
C15_NoInterference ==
    /\ \A c \in Callers :
          /\ frames[c].pc = "done" => frames[c].outcome = evaluate(frames[c].expr)
          /\ frames[c].pc \in {"walk", "float"} =>
                frames[c].parsed = AstParse(Strip(frames[c].expr.s)).tree
    /\ \A i \in 1..Len(history) : history[i].outcome = evaluate(history[i].expr)

\* one call is done with its own result while the other is between its
\* parse and its walk of another tree
C15_Witness ==
    /\ frames["a"].pc = "done"
    /\ frames["a"].expr = StrInput(<<"2", "+", "3">>)
    /\ frames["a"].outcome = Return(FloatV(5, 1))
    /\ frames["b"].pc = "walk"
    /\ frames["b"].expr = StrInput(<<"1", "/", "0">>)

(***************************************************************************)
(* main and its batches, src/imp-met/main.py.  The input is a list of      *)
(* items, here their ids 1..n.  run_batch awaits the agent, whose answer   *)
(* is any list of converted items (an id and a new description each),      *)
(* then records the usage and returns the answer as a dictionary.  The     *)
(* batches run at once and finish in any order; finished lists them in     *)
(* the order of their return.  An agent run that raises is not modelled.   *)
(***************************************************************************)
BATCH_SIZE == 10
MaxItems == 21

\* lines 73-81
batch_items(data, size) ==
    [k \in 1..((Len(data) + size - 1) \div size) |->
        SubSeq(data, (k - 1) * size + 1, Min({k * size, Len(data)}))]

Item(i, text) == [id |-> i, new_description |-> text]
\* what the agent may answer: about an item of the first batch or of the
\* second, once or twice
Answers ==
    {<<Item(1, "25.4 mm")>>, <<Item(1, "2.54 cm")>>, <<Item(11, "0.3 m")>>,
     <<Item(1, "25.4 mm"), Item(11, "30 cm")>>, <<Item(1, "1 in"), Item(1, "25 mm")>>}

\* line 103: {item.id: item for item in line_items}
RECURSIVE DictOf(_, _)
DictOf(line_items, i) ==
    IF i = 0 THEN <<>> ELSE (line_items[i].id :> line_items[i]) @@ DictOf(line_items, i - 1)

\* lines 115-117: {k: v for batch in all_results for k, v in batch.items()}
RECURSIVE MergedUpTo(_, _)
MergedUpTo(results, i) == IF i = 0 THEN <<>> ELSE results[i] @@ MergedUpTo(results, i - 1)

Task(state, answer) == [state |-> state, result |-> answer]

\* lines 107-109
BatchesInit ==
    /\ main_pc = "gather"
    /\ batches \in {batch_items([i \in 1..n |-> i], BATCH_SIZE) : n \in 1..MaxItems}
    /\ tasks = [b \in 1..Len(batches) |-> Task("created", <<>>)]
    /\ finished = <<>>
    /\ all_results = <<>>
    /\ merged_result = <<>>
    /\ NoCall /\ NoFrames /\ TokenTracker

\* lines 85-89: the coroutine runs up to its await
StartBatch(b) ==
    /\ main_pc = "gather"
    /\ tasks[b].state = "created"
    /\ tasks' = [tasks EXCEPT ![b].state = "awaiting"]
    /\ UNCHANGED <<main_pc, batches, finished, all_results, merged_result>>
    /\ UNCHANGED <<callVars, frameVars, trackerVars>>

\* lines 89-103: the agent answers, the usage is recorded, the dictionary
\* is returned
FinishBatch(b) ==
    /\ tasks[b].state = "awaiting"
    /\ \E line_items \in Answers :
           tasks' = [tasks EXCEPT ![b] = Task("returned", DictOf(line_items, Len(line_items)))]
    /\ track_usage("batch", Usage(5, 2), Gpt41Mini, <<"Batch IDs: ">> \o batches[b])
    /\ finished' = Append(finished, b)
    /\ UNCHANGED <<main_pc, batches, all_results, merged_result>>
    /\ UNCHANGED <<callVars, frameVars>>

\* the results in the order of their return
Gathered_as_completed == [i \in 1..Len(finished) |-> tasks[finished[i]].result]

\* what asyncio.gather returns: the results in the order of the awaitables
Gathered == [b \in 1..Len(batches) |-> tasks[b].result]

\* lines 111-113
Gather ==
    /\ main_pc = "gather"
    /\ \A b \in 1..Len(batches) : tasks[b].state = "returned"
    /\ all_results' = Gathered
    /\ main_pc' = "merge"
    /\ UNCHANGED <<batches, tasks, finished, merged_result>>
    /\ UNCHANGED <<callVars, frameVars, trackerVars>>

\* lines 115-117
Merge ==
    /\ main_pc = "merge"
    /\ merged_result' = MergedUpTo(all_results, Len(all_results))
    /\ main_pc' = "done"
    /\ UNCHANGED <<batches, tasks, finished, all_results>>
    /\ UNCHANGED <<callVars, frameVars, trackerVars>>

BatchesNext ==
    \/ \E b \in 1..Len(batches) : StartBatch(b) \/ FinishBatch(b)
    \/ Gather
    \/ Merge

BatchesSpec == BatchesInit /\ [][BatchesNext]_vars

(***************************************************************************)
(* C19.  The merged result does not depend on the order in which the       *)
(* batches finish: it holds the ids that some batch returned, each with    *)
(* the entry of the last batch, in the order of the input, that returned   *)
(* it.                                                                     *)
(***************************************************************************)
Returning(i) == {b \in 1..Len(batches) : i \in DOMAIN tasks[b].result}

C19_MergeInInputOrder ==
    main_pc = "done" =>
        /\ DOMAIN merged_result = UNION {DOMAIN tasks[b].result : b \in 1..Len(batches)}
        /\ \A i \in DOMAIN merged_result :
               merged_result[i] = tasks[Max(Returning(i))].result[i]

\* the second batch finished first, both returned the item 1, and the
\* entry of the second batch is the one kept
C19_Witness ==
    /\ main_pc = "done"
    /\ Len(finished) >= 2 /\ finished[1] = 2 /\ finished[2] = 1
    /\ tasks[1].result[1] = Item(1, "2.54 cm")
    /\ tasks[2].result[1] = Item(1, "25.4 mm")
    /\ merged_result[1] = Item(1, "25.4 mm")

====
